---------------------------- MODULE Spec2Model ----------------------------
(***************************************************************************)
(* Microgrid dispatch (Daan4/microgrid_lfa_opt).                           *)
(*                                                                         *)
(* The model follows the time-stepped dispatch loop of                     *)
(* calculate_setpoints_priority (microgrid_pf.py) and of constraint        *)
(* (optimize_microgrid.py), and the diesel fuel curve of lib.py.           *)
(*                                                                         *)
(* Number representation (exact, no rounding):                             *)
(*   - apparent/active/reactive power: integer kVA / kW / kVAr;            *)
(*   - energy (SOC, battery capacity): integer multiples of 1/90 kWh, so   *)
(*     that s / 0.9 = 100*s and s * 0.9 = 81*s are integers for every      *)
(*     integer power s (BATT_EFFICIENCY = 0.9 = 9/10);                     *)
(*   - the argument of the fuel curve: integer multiples of 0.5 kVA, so    *)
(*     that 0.25*750 = 187.5 kVA is the integer 375; its result: integer   *)
(*     multiples of 1/375 litre.                                           *)
(***************************************************************************)
EXTENDS Integers, Sequences, FiniteSets, TLC

(* ------------------------------ bounds -------------------------------- *)

\* longest load series simulated
MaxSteps == 3

\* longest Series handed to calculate_diesel_fuel_usage
MaxSeriesLen == 2

(* ------------------------- program constants -------------------------- *)

\* microgrid_pf.py:12   BATT_NOM_ENERGY = 2209  [kWh]
BATT_NOM_ENERGY == 2209

\* microgrid_pf.py:16 / optimize_microgrid.py:22
GRID_AVAILABLE_HOURS == {1, 2, 3, 4, 5, 10, 11, 12, 13, 17, 18, 19, 20, 21}

(* ------------------------- numeric helpers ---------------------------- *)

\* Python's built-in min / max on two numbers
min(a, b) == IF b < a THEN b ELSE a
max(a, b) == IF b > a THEN b ELSE a

\* kWh -> 1/90 kWh
Energy(kwh) == 90 * kwh

\* x / BATT_EFFICIENCY  (power in kVA -> energy in 1/90 kWh): x / 0.9
DivEff(x) == 100 * x

\* x * BATT_EFFICIENCY  (power in kVA -> energy in 1/90 kWh): x * 0.9
MulEff(x) == 81 * x

\* 0.2 * capacity, capacity in kWh, result in 1/90 kWh
Frac20(kwh) == 18 * kwh

\* 0.5 * capacity, capacity in kWh, result in 1/90 kWh
Frac50(kwh) == 45 * kwh

\* math.sqrt on the squares that occur (floor of the root, by bisection)
RECURSIVE SqrtBetween(_, _, _)
SqrtBetween(n, lo, hi) ==
    IF lo >= hi THEN lo
    ELSE LET mid == (lo + hi + 1) \div 2
         IN  IF mid * mid <= n THEN SqrtBetween(n, mid, hi)
                               ELSE SqrtBetween(n, lo, mid - 1)

sqrt(n) == SqrtBetween(n, 0, 2048)

(* ------------------------------ inputs -------------------------------- *)

\* (load_p_data[dt], load_q_data[dt]) pairs; apparent power 0, 100, 300, 800
LoadPQ == {<<0, 0>>, <<60, 80>>, <<180, 240>>, <<480, 640>>}

\* pv_data[dt]: PV potential (microgrid_pf.py) or potential per kWp
\* (optimize_microgrid.py) at one timestamp
PvData == {0, 100, 150, 900}

\* candidates x = (pv_size, battery_size) of the sizing search
Candidates == {<<1, 0>>, <<2, 100>>, <<1, 1000>>}

Hours == 0 .. 23

\* scalar arguments of calculate_diesel_fuel_usage [0.5 kVA]: the neighbourhood
\* of 0, of 0.5 kVA and of 25/50/75/100 % of 750 kVA, a coarse grid up to
\* 1000 kVA, and two negative powers
FuelInputs ==
    {-250, -1} \cup (0 .. 3) \cup (373 .. 377) \cup (748 .. 752)
               \cup (1123 .. 1127) \cup (1498 .. 1502)
               \cup {125 * k : k \in 1 .. 16}

\* elements of a Series argument [0.5 kVA]
SeriesInputs == {-1, 0, 1, 375, 750, 1124, 1500, 1600}

(* ------------------------------- state -------------------------------- *)

VARIABLES
    fn,            \* routine running: "priority" or "constraint"
    battery_size,  \* capacity [kWh]: BATT_NOM_ENERGY or x[1]
    pv_size,       \* x[0] (1 for calculate_setpoints_priority)
    n_load,        \* len(load_p_data.index)
    pv_first,      \* position, in the load index, of pv_data's first timestamp
    pv_last,       \* position, in the load index, of pv_data's last timestamp
    hour0,         \* hour of the first timestamp of the load index
    t,             \* number of timestamps whose iteration has run
    soc,           \* _soc / soc  [1/90 kWh]
    fuel_usage,    \* fuel_usage  [1/375 l]
    cur,           \* inputs, decision and set-points of the latest iteration
    n_set,         \* len(p_set_pv): set-points appended so far
    pc,            \* "loop", "done" or "error"
    err,           \* "none", "KeyError" or "ZeroDivisionError"
    ret,           \* constraint's return value (0: nothing returned)
    f_mode,        \* latest call of calculate_diesel_fuel_usage: "scalar", "series"
    f_arg,         \* its argument s: <<s>> for a scalar, else s.values [0.5 kVA]
    f_ret,         \* its return value [1/375 l]
    f_prev,        \* argument and return value of the scalar call before it
    fuel_prior,    \* fuel used by the timestamps of the series that precede
                   \* the ones simulated here [1/750 l]
    profile,       \* module-level load_p_data, load_q_data, pv_data across
                   \* runs: <<(p, q), pv>> per timestamp (<<>>: any input)
    calls,         \* the runs started so far on profile, latest last
    trace,         \* per run configuration, what its first run computed
    strategy,      \* argument of calculate_setpoints
    pure           \* latest call of objective, get_electricity_price or
                   \* calculate_diesel_setpoints: argument and result

dispatchVars == <<fn, battery_size, pv_size, n_load, pv_first, pv_last, hour0, t,
                  soc, fuel_usage, cur, n_set, pc, err, ret>>

fuelVars == <<f_mode, f_arg, f_ret, f_prev>>

extVars == <<fuel_prior, profile, calls, trace, strategy, pure>>

vars == <<dispatchVars, fuelVars, extVars>>

\* dt.hour of the i-th timestamp of an hourly index
HourAt(i) == (hour0 + i - 1) % 24

\* pv_data has an entry for the i-th timestamp of the load index
PvHasKey(i) == pv_first <= i /\ i <= pv_last

NoStep == [hour |-> 0, load_p |-> 0, load_q |-> 0, s_load |-> 0, pv |-> 0,
           s_pv |-> 0, s_batt |-> 0, s_diesel |-> 0, branch |-> "none",
           soc0 |-> 0, soc_raw |-> 0,
           p_set_pv |-> 0, q_set_pv |-> 0,
           p_set_battery |-> 0, q_set_battery |-> 0,
           p_set_diesel |-> 0, q_set_diesel |-> 0]

(* ------------------- calculate_setpoints_priority --------------------- *)

\* mutant: the lower diesel limit is forgotten
priority_diesel_no_minimum(gap) == min(750, gap)

\* microgrid_pf.py:300-301: s_diesel = max(250, gap); s_diesel = min(750, s_diesel)
priority_diesel(gap) == min(750, max(250, gap))

\* mutant: the diesel output above the gap is not routed into the battery
priority_diesel_batt_dropped(gap, s_diesel) == 0

\* microgrid_pf.py:302-303: the diesel output above the gap charges the battery
priority_diesel_batt(gap, s_diesel) == IF s_diesel > gap THEN gap - s_diesel ELSE 0

\* microgrid_pf.py:282: the PV surplus fits into the battery
priority_pv_fits(_soc, surplus) ==
    _soc <= Energy(BATT_NOM_ENERGY) - MulEff(surplus)

\* mutant: the PV set-point is not cut when the surplus does not fit
priority_curtail_missing(s_load, pv) == pv

\* microgrid_pf.py:287: s_pv = s_load (curtailment)
priority_curtail(s_load, pv) == s_load

\* mutant: the 20 % reserve is left out of the test
priority_above20_no_reserve(_soc, gap) == _soc > DivEff(gap)

\* microgrid_pf.py:290: the battery covers the gap and stays above 20 %
priority_above20(_soc, gap) == _soc > Frac20(BATT_NOM_ENERGY) + DivEff(gap)

\* microgrid_pf.py:295: the battery covers the gap and stays above 0
priority_above0(_soc, gap) == _soc >= DivEff(gap)

\* mutant: the grid is taken to be unavailable at every hour
priority_grid_unavailable_any_hour(hour) == TRUE

\* microgrid_pf.py:293: dt.hour not in GRID_AVAILABLE_HOURS
priority_grid_unavailable(hour) == hour \notin GRID_AVAILABLE_HOURS

\* microgrid_pf.py:276-303: the decision of one iteration
priority_decide(_soc, s_load, pv, hour) ==
    IF pv > s_load THEN
        IF priority_pv_fits(_soc, pv - s_load)
        THEN [s_pv |-> pv, s_batt |-> -(pv - s_load), s_diesel |-> 0,
              branch |-> "pv_charge"]
        ELSE [s_pv |-> priority_curtail(s_load, pv), s_batt |-> 0, s_diesel |-> 0,
              branch |-> "pv_curtail"]
    ELSE IF pv < s_load THEN
        IF priority_above20(_soc, s_load - pv)
        THEN [s_pv |-> pv, s_batt |-> s_load - pv, s_diesel |-> 0,
              branch |-> "batt_above20"]
        ELSE IF priority_grid_unavailable(hour) THEN
            IF priority_above0(_soc, s_load - pv)
            THEN [s_pv |-> pv, s_batt |-> s_load - pv, s_diesel |-> 0,
                  branch |-> "batt_below20"]
            ELSE [s_pv |-> pv,
                  s_batt |-> priority_diesel_batt(s_load - pv,
                                                  priority_diesel(s_load - pv)),
                  s_diesel |-> priority_diesel(s_load - pv),
                  branch |-> "diesel"]
        ELSE [s_pv |-> pv, s_batt |-> 0, s_diesel |-> 0, branch |-> "grid"]
    ELSE [s_pv |-> pv, s_batt |-> 0, s_diesel |-> 0, branch |-> "balanced"]

\* microgrid_pf.py:306-309: _soc before the clamp
priority_soc_raw(_soc, s_batt) ==
    IF s_batt >= 0 THEN _soc - DivEff(s_batt) ELSE _soc - MulEff(s_batt)

\* microgrid_pf.py:310-311: _soc = min(_soc, BATT_NOM_ENERGY); _soc = max(0, _soc)
priority_soc_clamp(raw) == max(0, min(raw, Energy(BATT_NOM_ENERGY)))

\* microgrid_pf.py:314-320: s / s_load * load_x, for s_load # 0
priority_setpoint(s, s_load, load_x) == (s * load_x) \div s_load


\* microgrid_pf.py:274-321: one iteration of "for dt in index"
\* (the singleton sets bind a value once it is computed)
priority_iteration ==
    /\ pc = "loop" /\ fn = "priority" /\ t < n_load
    /\ \E pq \in LoadPQ, pv \in PvData :
       \E load_p \in {pq[1]}, load_q \in {pq[2]}, hour \in {HourAt(t + 1)} :
       \E s_load \in {sqrt(load_p * load_p + load_q * load_q)} :
         IF ~PvHasKey(t + 1)
         THEN \* pv_data[dt] raises KeyError (line 276)
              /\ pc' = "error" /\ err' = "KeyError"
              /\ UNCHANGED <<t, soc, cur, n_set>>
         ELSE \E d \in {priority_decide(soc, s_load, pv, hour)} :
              \E raw \in {priority_soc_raw(soc, d.s_batt)} :
              \E step \in {[NoStep EXCEPT
                              !.hour = hour, !.load_p = load_p, !.load_q = load_q,
                              !.s_load = s_load, !.pv = pv,
                              !.s_pv = d.s_pv, !.s_batt = d.s_batt,
                              !.s_diesel = d.s_diesel, !.branch = d.branch,
                              !.soc0 = soc, !.soc_raw = raw]} :
                /\ t' = t + 1
                /\ soc' = priority_soc_clamp(raw)
                /\ IF s_load = 0
                   THEN \* s_diesel / s_load with s_diesel the int 0 and
                        \* s_load the float 0.0 raises ZeroDivisionError
                        \* (line 319 at the latest); nothing is returned
                        /\ pc' = "error" /\ err' = "ZeroDivisionError"
                        /\ cur' = step
                        /\ UNCHANGED n_set
                   ELSE /\ cur' = [step EXCEPT
                              !.p_set_pv      = priority_setpoint(d.s_pv, s_load, load_p),
                              !.q_set_pv      = priority_setpoint(d.s_pv, s_load, load_q),
                              !.p_set_battery = priority_setpoint(d.s_batt, s_load, load_p),
                              !.q_set_battery = priority_setpoint(d.s_batt, s_load, load_q),
                              !.p_set_diesel  = priority_setpoint(d.s_diesel, s_load, load_p),
                              !.q_set_diesel  = priority_setpoint(d.s_diesel, s_load, load_q)]
                        /\ n_set' = n_set + 1
                        /\ UNCHANGED <<pc, err>>
    /\ UNCHANGED <<fn, battery_size, pv_size, n_load, pv_first, pv_last, hour0,
                   fuel_usage, ret, fuelVars>>

\* microgrid_pf.py:274-321, in a single run of calculate_setpoints_priority
calculate_setpoints_priority == priority_iteration /\ UNCHANGED extVars

\* microgrid_pf.py:323-330: the six series are returned
priority_finish ==
    /\ pc = "loop" /\ fn = "priority" /\ t = n_load
    /\ pc' = "done"
    /\ UNCHANGED <<fn, battery_size, pv_size, n_load, pv_first, pv_last, hour0,
                   t, soc, fuel_usage, cur, n_set, err, ret, fuelVars>>

\* microgrid_pf.py:323-330, in a single run of calculate_setpoints_priority
priority_return == priority_finish /\ UNCHANGED extVars

(* --------------------------- lib.py fuel curve ------------------------- *)

\* mutant: the third test comes first, so that its lower bound 0.5 decides
fuel_branch_scalar_third_first(s2) ==
    IF 1 <= s2 /\ s2 < 1125 THEN 3
    ELSE IF 0 <= s2 /\ s2 < 375 THEN 1
    ELSE IF 375 <= s2 /\ s2 < 750 THEN 2
    ELSE 4

\* lib.py:122-130: calculate_diesel_fuel_usage on a scalar (the except
\* AttributeError path); s2 is the power in 0.5 kVA, the result in 1/375 l
fuel_branch_scalar(s2) ==
    IF 0 <= s2 /\ s2 < 375 THEN 1            \* 0 <= s < 0.25*750
    ELSE IF 375 <= s2 /\ s2 < 750 THEN 2     \* 0.25*750 <= s < 0.5*750
    ELSE IF 1 <= s2 /\ s2 < 1125 THEN 3      \* 0.5 <= s < 0.75*750
    ELSE 4

\* mutant: the second segment loses its offset of 62 l
calculate_diesel_fuel_usage_no_offset(s2) ==
    IF 0 <= s2 /\ s2 < 375 THEN 62 * s2
    ELSE IF 375 <= s2 /\ s2 < 750 THEN 42 * (s2 - 375)
    ELSE IF 1 <= s2 /\ s2 < 1125 THEN 45 * (s2 - 750) + 104 * 375
    ELSE 53 * (s2 - 1125) + 149 * 375

calculate_diesel_fuel_usage(s2) ==
    LET b == fuel_branch_scalar(s2)
    IN  IF b = 1 THEN 62 * s2
        ELSE IF b = 2 THEN 42 * (s2 - 375) + 62 * 375
        ELSE IF b = 3 THEN 45 * (s2 - 750) + 104 * 375
        ELSE 53 * (s2 - 1125) + 149 * 375

\* lib.py:112-119: the branch taken for one element v of s.values
fuel_branch_series(v2) ==
    IF 0 <= v2 /\ v2 < 375 THEN 1            \* 0 <= v < 0.25*750
    ELSE IF 375 <= v2 /\ v2 < 750 THEN 2     \* 0.25*750 <= v < 0.5*750
    ELSE IF 1 <= v2 /\ v2 < 1125 THEN 3      \* 0.5 <= v < 0.75*750
    ELSE 4

\* lib.py:113,115,117,119: what one element adds to fuel
fuel_series_term(v2) ==
    LET b == fuel_branch_series(v2)
    IN  IF b = 1 THEN 62 * v2
        ELSE IF b = 2 THEN 42 * (v2 - 375) + 62 * 375
        ELSE IF b = 3 THEN 45 * (v2 - 750) + 104 * 375
        ELSE 53 * (v2 - 1125) + 149 * 375

\* lib.py:109-120: fuel = 0; for v in s.values: fuel += ...; return fuel
RECURSIVE fuel_series_loop(_, _, _)
fuel_series_loop(values, k, fuel) ==
    IF k > Len(values) THEN fuel
    ELSE fuel_series_loop(values, k + 1, fuel + fuel_series_term(values[k]))

calculate_diesel_fuel_usage_series(values) == fuel_series_loop(values, 1, 0)

\* a call calculate_diesel_fuel_usage(s) with s a number
fuel_call_scalar ==
    /\ pc = "idle"
    /\ \E s2 \in FuelInputs :
         /\ f_mode' = "scalar"
         /\ f_arg' = <<s2>>
         /\ f_ret' = calculate_diesel_fuel_usage(s2)
         /\ f_prev' = IF f_mode = "scalar"
                      THEN [called |-> TRUE, arg |-> f_arg[1], ret |-> f_ret]
                      ELSE [called |-> FALSE, arg |-> 0, ret |-> 0]
    /\ UNCHANGED <<dispatchVars, extVars>>

\* a call calculate_diesel_fuel_usage(s) with s a pandas Series
fuel_call_series ==
    /\ pc = "idle"
    /\ \E n \in 0 .. MaxSeriesLen : \E values \in [1 .. n -> SeriesInputs] :
         /\ f_mode' = "series"
         /\ f_arg' = values
         /\ f_ret' = calculate_diesel_fuel_usage_series(values)
         /\ f_prev' = [called |-> FALSE, arg |-> 0, ret |-> 0]
    /\ UNCHANGED <<dispatchVars, extVars>>

(* ------------------ optimize_microgrid.py: constraint ------------------ *)

\* mutant: the diesel output follows the gap, without its limits
constraint_diesel_unclamped(gap) == gap

\* optimize_microgrid.py:69-70
constraint_diesel(gap) == min(750, max(250, gap))

\* mutant: the battery also covers what the diesel generator leaves of the gap
constraint_diesel_batt_shares(gap, s_diesel) == gap - s_diesel

\* optimize_microgrid.py:71-72: the diesel output above the gap charges the battery
constraint_diesel_batt(gap, s_diesel) == IF s_diesel > gap THEN gap - s_diesel ELSE 0

\* mutant: the PV surplus is always routed into the battery
constraint_pv_fits_always(_soc, size, surplus) == TRUE

\* optimize_microgrid.py:51: the PV surplus fits into the battery
constraint_pv_fits(_soc, size, surplus) == _soc <= Energy(size) - MulEff(surplus)

\* mutant: the PV set-point is not cut when the surplus does not fit
constraint_curtail_missing(s_load, pv) == pv

\* optimize_microgrid.py:56: s_pv = s_load (curtailment)
constraint_curtail(s_load, pv) == s_load

\* mutant: the 20 % reserve is left out of the test
constraint_above20_no_reserve(_soc, size, gap) == _soc > DivEff(gap)

\* optimize_microgrid.py:59: the battery covers the gap and stays above 20 %
constraint_above20(_soc, size, gap) == _soc > Frac20(size) + DivEff(gap)

\* optimize_microgrid.py:64: the battery covers the gap and stays above 0
constraint_above0(_soc, gap) == _soc >= DivEff(gap)

\* mutant: the diesel generator is started whatever the hour
constraint_grid_unavailable_any_hour(hour) == TRUE

\* optimize_microgrid.py:62: dt.hour not in GRID_AVAILABLE_HOURS
constraint_grid_unavailable(hour) == hour \notin GRID_AVAILABLE_HOURS

\* optimize_microgrid.py:45-72: the decision of one iteration
constraint_decide(_soc, size, s_load, pv, hour) ==
    IF pv > s_load THEN
        IF constraint_pv_fits(_soc, size, pv - s_load)
        THEN [s_pv |-> pv, s_batt |-> -(pv - s_load), s_diesel |-> 0,
              branch |-> "pv_charge"]
        ELSE [s_pv |-> constraint_curtail(s_load, pv), s_batt |-> 0, s_diesel |-> 0,
              branch |-> "pv_curtail"]
    ELSE IF pv < s_load THEN
        IF constraint_above20(_soc, size, s_load - pv)
        THEN [s_pv |-> pv, s_batt |-> s_load - pv, s_diesel |-> 0,
              branch |-> "batt_above20"]
        ELSE IF constraint_grid_unavailable(hour) THEN
            IF constraint_above0(_soc, s_load - pv)
            THEN [s_pv |-> pv, s_batt |-> s_load - pv, s_diesel |-> 0,
                  branch |-> "batt_below20"]
            ELSE [s_pv |-> pv,
                  s_batt |-> constraint_diesel_batt(s_load - pv,
                                                    constraint_diesel(s_load - pv)),
                  s_diesel |-> constraint_diesel(s_load - pv),
                  branch |-> "diesel"]
        ELSE [s_pv |-> pv, s_batt |-> 0, s_diesel |-> 0, branch |-> "grid"]
    ELSE [s_pv |-> pv, s_batt |-> 0, s_diesel |-> 0, branch |-> "balanced"]

\* mutant: charging stores the whole surplus, without the efficiency loss
constraint_soc_raw_lossless(_soc, s_batt) ==
    IF s_batt >= 0 THEN _soc - DivEff(s_batt) ELSE _soc - Energy(s_batt)

\* optimize_microgrid.py:78-81: soc before the clamp
constraint_soc_raw(_soc, s_batt) ==
    IF s_batt >= 0 THEN _soc - DivEff(s_batt) ELSE _soc - MulEff(s_batt)

\* mutant: the upper clamp is forgotten
constraint_soc_clamp_no_ceiling(raw, size) == max(0, raw)

\* optimize_microgrid.py:82-83: soc = min(soc, battery_size); soc = max(0, soc)
constraint_soc_clamp(raw, size) == max(0, min(raw, Energy(size)))

\* mutant: the fuel of the timestep replaces the running total
constraint_fuel_overwrites(fuel, s_diesel) ==
    IF s_diesel > 0 THEN calculate_diesel_fuel_usage(2 * s_diesel) ELSE fuel

\* optimize_microgrid.py:74-75: if s_diesel > 0: fuel_usage += ...
constraint_fuel(fuel, s_diesel) ==
    IF s_diesel > 0 THEN fuel + calculate_diesel_fuel_usage(2 * s_diesel) ELSE fuel

\* optimize_microgrid.py:43-83: one iteration of "for dt in index"
constraint_iteration ==
    /\ pc = "loop" /\ fn = "constraint" /\ t < n_load
    /\ \E pq \in LoadPQ, pv \in PvData :
       \E load_p \in {pq[1]}, load_q \in {pq[2]}, hour \in {HourAt(t + 1)} :
       \E s_load \in {sqrt(load_p * load_p + load_q * load_q)} :
         IF ~PvHasKey(t + 1)
         THEN \* pv_data[dt] raises KeyError (line 45)
              /\ pc' = "error" /\ err' = "KeyError"
              /\ UNCHANGED <<t, soc, cur, fuel_usage>>
         ELSE \E d \in {constraint_decide(soc, battery_size, s_load, pv * pv_size, hour)} :
              \E raw \in {constraint_soc_raw(soc, d.s_batt)} :
                /\ t' = t + 1
                /\ fuel_usage' = constraint_fuel(fuel_usage, d.s_diesel)
                /\ soc' = constraint_soc_clamp(raw, battery_size)
                /\ cur' = [NoStep EXCEPT
                             !.hour = hour, !.load_p = load_p, !.load_q = load_q,
                             !.s_load = s_load, !.pv = pv * pv_size,
                             !.s_pv = d.s_pv, !.s_batt = d.s_batt,
                             !.s_diesel = d.s_diesel, !.branch = d.branch,
                             !.soc0 = soc, !.soc_raw = raw]
                /\ UNCHANGED <<pc, err>>
    /\ UNCHANGED <<fn, battery_size, pv_size, n_load, pv_first, pv_last, hour0,
                   n_set, ret, fuelVars>>

\* optimize_microgrid.py:43-83, in a single run of constraint
constraint == constraint_iteration /\ UNCHANGED extVars

\* mutant: the threshold itself still counts as feasible
constraint_verdict_inclusive(fuel750) == IF fuel750 <= 21481335 THEN 1 ELSE -1

\* optimize_microgrid.py:87-90: fuel_usage < 0.09*318242 decides; fuel750 is
\* the fuel in 1/750 l, in which 0.09*318242 l = 28641.78 l is 21481335
constraint_verdict(fuel750) == IF fuel750 < 21481335 THEN 1 ELSE -1

\* optimize_microgrid.py:87-90
constraint_finish ==
    /\ pc = "loop" /\ fn = "constraint" /\ t = n_load
    /\ pc' = "done"
    /\ ret' = constraint_verdict(fuel_prior + 2 * fuel_usage)
    /\ UNCHANGED <<fn, battery_size, pv_size, n_load, pv_first, pv_last, hour0,
                   t, soc, fuel_usage, cur, n_set, err, fuelVars>>

\* optimize_microgrid.py:87-90, in a single run of constraint
constraint_return == constraint_finish /\ UNCHANGED extVars

(* ------------------ repeated runs on the same profiles ----------------- *)

MaxCalls == 3

\* (routine, pv_size, battery capacity) of a run: calculate_setpoints_priority
\* on pv_data, constraint((1, BATT_NOM_ENERGY)) and constraint((2, 100))
RunConfigs ==
    {<<"priority", 1, BATT_NOM_ENERGY>>,
     <<"constraint", 1, BATT_NOM_ENERGY>>,
     <<"constraint", 2, 100>>}

\* (load_p_data[dt], load_q_data[dt]) and pv_data[dt] at one timestamp
ProfileInputs ==
    {<<<<0, 0>>, 0>>, <<<<480, 640>>, 0>>, <<<<180, 240>>, 900>>}

Profiles == UNION {[1 .. n -> ProfileInputs] : n \in 1 .. MaxSteps}

\* microgrid_pf.py:15: BATT_SOC_INITIAL = BATT_NOM_ENERGY/2
BATT_SOC_INITIAL == Frac50(BATT_NOM_ENERGY)

\* the run in progress, or the last one made
RunConfig == calls[Len(calls)]

RunsOf(c) == Cardinality({i \in 1 .. Len(calls) : calls[i] = c})

\* mutant: soc lives on between calls and is not set at the start of a run
constraint_soc_initial_kept(left, size) == left

\* optimize_microgrid.py:38: soc = 0.5 * battery_size; left is what the run
\* before left in its own local soc, which this assignment does not read
constraint_soc_initial(left, size) == Frac50(size)

\* microgrid_pf.py:262-272: calculate_setpoints_priority is entered
priority_call ==
    /\ pc \in {"ready", "done", "error"} /\ Len(calls) < MaxCalls
    /\ \E c \in RunConfigs :
         /\ c[1] = "priority"
         /\ calls' = Append(calls, c)
         /\ fn' = "priority" /\ pv_size' = c[2] /\ battery_size' = c[3]
    /\ soc' = BATT_SOC_INITIAL
    /\ fuel_usage' = 0 /\ t' = 0 /\ cur' = NoStep /\ n_set' = 0
    /\ pc' = "loop" /\ err' = "none" /\ ret' = 0
    /\ UNCHANGED <<n_load, pv_first, pv_last, hour0, fuelVars,
                   fuel_prior, profile, trace, strategy, pure>>

\* optimize_microgrid.py:36-41: constraint(x) is entered
constraint_call ==
    /\ pc \in {"ready", "done", "error"} /\ Len(calls) < MaxCalls
    /\ \E c \in RunConfigs :
         /\ c[1] = "constraint"
         /\ calls' = Append(calls, c)
         /\ fn' = "constraint" /\ pv_size' = c[2] /\ battery_size' = c[3]
         /\ soc' = constraint_soc_initial(soc, c[3])
    /\ fuel_usage' = 0 /\ t' = 0 /\ cur' = NoStep /\ n_set' = 0
    /\ pc' = "loop" /\ err' = "none" /\ ret' = 0
    /\ UNCHANGED <<n_load, pv_first, pv_last, hour0, fuelVars,
                   fuel_prior, profile, trace, strategy, pure>>

\* the iteration just made read its timestamp's values from the profiles
FromProfile ==
    /\ t' = t + 1
    /\ <<cur'.load_p, cur'.load_q>> = profile[t'][1]
    /\ cur'.pv = profile[t'][2] * pv_size

\* what the step just made adds to the record of a run
Recorded(r) ==
    [steps  |-> IF t' > t
                THEN Append(r.steps, [cur |-> cur', soc |-> soc',
                                      fuel_usage |-> fuel_usage'])
                ELSE r.steps,
     result |-> IF pc' \in {"done", "error"}
                THEN <<[pc |-> pc', err |-> err', ret |-> ret', n_set |-> n_set']>>
                ELSE <<>>]

\* the first run of a configuration is recorded; the profiles stay as they are
Observe ==
    /\ trace' = IF RunsOf(RunConfig) = 1
                THEN [trace EXCEPT ![RunConfig] = Recorded(@)]
                ELSE trace
    /\ UNCHANGED <<fuel_prior, profile, calls, strategy, pure>>

\* microgrid_pf.py:274-321 on load_p_data[dt], load_q_data[dt], pv_data[dt]
priority_on_profile == priority_iteration /\ FromProfile /\ Observe

\* microgrid_pf.py:323-330
priority_return_on_profile == priority_finish /\ Observe

\* optimize_microgrid.py:43-83 on load_p_data[dt], load_q_data[dt], pv_data[dt]
constraint_on_profile == constraint_iteration /\ FromProfile /\ Observe

\* optimize_microgrid.py:87-90
constraint_return_on_profile == constraint_finish /\ Observe

(* ----------------------- calculate_setpoints_tou ----------------------- *)

\* microgrid_pf.py:218-219: s_diesel = max(250, gap); s_diesel = min(750, s_diesel)
tou_diesel(gap) == min(750, max(250, gap))

\* microgrid_pf.py:220-221: the diesel output above the gap charges the battery
tou_diesel_batt(gap, s_diesel) == IF s_diesel > gap THEN gap - s_diesel ELSE 0

\* microgrid_pf.py:200: the PV surplus fits into the battery
tou_pv_fits(_soc, surplus) ==
    _soc <= Energy(BATT_NOM_ENERGY) - MulEff(surplus)

\* microgrid_pf.py:205: s_pv = s_load (curtailment)
tou_curtail(s_load, pv) == s_load

\* microgrid_pf.py:208: the battery covers the gap and stays above 20 %
tou_above20(_soc, gap) == _soc > Frac20(BATT_NOM_ENERGY) + DivEff(gap)

\* microgrid_pf.py:213: the battery covers the gap and stays above 0
tou_above0(_soc, gap) == _soc >= DivEff(gap)

\* microgrid_pf.py:211: dt.hour not in GRID_AVAILABLE_HOURS
tou_grid_unavailable(hour) == hour \notin GRID_AVAILABLE_HOURS

\* mutant: where the grid covers the gap it also charges the battery
tou_decide_grid_recharge(_soc, s_load, pv, hour) ==
    IF priority_decide(_soc, s_load, pv, hour).branch = "grid"
    THEN [priority_decide(_soc, s_load, pv, hour) EXCEPT !.s_batt = -250]
    ELSE priority_decide(_soc, s_load, pv, hour)

\* microgrid_pf.py:194-221: the decision of one iteration
tou_decide(_soc, s_load, pv, hour) ==
    IF pv > s_load THEN
        IF tou_pv_fits(_soc, pv - s_load)
        THEN [s_pv |-> pv, s_batt |-> -(pv - s_load), s_diesel |-> 0,
              branch |-> "pv_charge"]
        ELSE [s_pv |-> tou_curtail(s_load, pv), s_batt |-> 0, s_diesel |-> 0,
              branch |-> "pv_curtail"]
    ELSE IF pv < s_load THEN
        IF tou_above20(_soc, s_load - pv)
        THEN [s_pv |-> pv, s_batt |-> s_load - pv, s_diesel |-> 0,
              branch |-> "batt_above20"]
        ELSE IF tou_grid_unavailable(hour) THEN
            IF tou_above0(_soc, s_load - pv)
            THEN [s_pv |-> pv, s_batt |-> s_load - pv, s_diesel |-> 0,
                  branch |-> "batt_below20"]
            ELSE [s_pv |-> pv,
                  s_batt |-> tou_diesel_batt(s_load - pv, tou_diesel(s_load - pv)),
                  s_diesel |-> tou_diesel(s_load - pv),
                  branch |-> "diesel"]
        ELSE [s_pv |-> pv, s_batt |-> 0, s_diesel |-> 0, branch |-> "grid"]
    ELSE [s_pv |-> pv, s_batt |-> 0, s_diesel |-> 0, branch |-> "balanced"]

\* microgrid_pf.py:224-227: _soc before the clamp
tou_soc_raw(_soc, s_batt) ==
    IF s_batt >= 0 THEN _soc - DivEff(s_batt) ELSE _soc - MulEff(s_batt)

\* microgrid_pf.py:228-229: _soc = min(_soc, BATT_NOM_ENERGY); _soc = max(0, _soc)
tou_soc_clamp(raw) == max(0, min(raw, Energy(BATT_NOM_ENERGY)))

\* microgrid_pf.py:232-238: s / s_load * load_x, for s_load # 0
tou_setpoint(s, s_load, load_x) == (s * load_x) \div s_load

\* microgrid_pf.py:192-239: one iteration of "for dt in index"
\* (the singleton sets bind a value once it is computed)
tou_iteration ==
    /\ pc = "loop" /\ fn = "tou" /\ t < n_load
    /\ \E pq \in LoadPQ, pv \in PvData :
       \E load_p \in {pq[1]}, load_q \in {pq[2]}, hour \in {HourAt(t + 1)} :
       \E s_load \in {sqrt(load_p * load_p + load_q * load_q)} :
         IF ~PvHasKey(t + 1)
         THEN \* pv_data[dt] raises KeyError (line 194)
              /\ pc' = "error" /\ err' = "KeyError"
              /\ UNCHANGED <<t, soc, cur, n_set>>
         ELSE \E d \in {tou_decide(soc, s_load, pv, hour)} :
              \E raw \in {tou_soc_raw(soc, d.s_batt)} :
              \E step \in {[NoStep EXCEPT
                              !.hour = hour, !.load_p = load_p, !.load_q = load_q,
                              !.s_load = s_load, !.pv = pv,
                              !.s_pv = d.s_pv, !.s_batt = d.s_batt,
                              !.s_diesel = d.s_diesel, !.branch = d.branch,
                              !.soc0 = soc, !.soc_raw = raw]} :
                /\ t' = t + 1
                /\ soc' = tou_soc_clamp(raw)
                /\ IF s_load = 0
                   THEN \* s_diesel / s_load with s_diesel the int 0 and
                        \* s_load the float 0.0 raises ZeroDivisionError
                        \* (line 237 at the latest); nothing is returned
                        /\ pc' = "error" /\ err' = "ZeroDivisionError"
                        /\ cur' = step
                        /\ UNCHANGED n_set
                   ELSE /\ cur' = [step EXCEPT
                              !.p_set_pv      = tou_setpoint(d.s_pv, s_load, load_p),
                              !.q_set_pv      = tou_setpoint(d.s_pv, s_load, load_q),
                              !.p_set_battery = tou_setpoint(d.s_batt, s_load, load_p),
                              !.q_set_battery = tou_setpoint(d.s_batt, s_load, load_q),
                              !.p_set_diesel  = tou_setpoint(d.s_diesel, s_load, load_p),
                              !.q_set_diesel  = tou_setpoint(d.s_diesel, s_load, load_q)]
                        /\ n_set' = n_set + 1
                        /\ UNCHANGED <<pc, err>>
    /\ UNCHANGED <<fn, battery_size, pv_size, n_load, pv_first, pv_last, hour0,
                   fuel_usage, ret, fuelVars>>

\* microgrid_pf.py:192-239, in a single run of calculate_setpoints_tou
calculate_setpoints_tou == tou_iteration /\ UNCHANGED extVars

\* microgrid_pf.py:241-248: the six series are returned
tou_finish ==
    /\ pc = "loop" /\ fn = "tou" /\ t = n_load
    /\ pc' = "done"
    /\ UNCHANGED <<fn, battery_size, pv_size, n_load, pv_first, pv_last, hour0,
                   t, soc, fuel_usage, cur, n_set, err, ret, fuelVars>>

\* microgrid_pf.py:241-248, in a single run of calculate_setpoints_tou
tou_return == tou_finish /\ UNCHANGED extVars

(* ------------------ microgrid_pf.calculate_setpoints ------------------- *)

\* the strategy argument: the two strategies of the dispatcher and another
\* string
Strategies == {"priority", "tou", "pso"}

\* mutant: 'tou' is routed to the priority routine
calculate_setpoints_route_priority_only(s) ==
    IF s = "priority" \/ s = "tou" THEN "priority" ELSE "none"

\* microgrid_pf.py:153-158: the routine a strategy is handed to ("none": the
\* else branch)
calculate_setpoints_route(s) ==
    IF s = "priority" THEN "priority"
    ELSE IF s = "tou" THEN "tou"
    ELSE "none"

\* microgrid_pf.py:139-158: calculate_setpoints(load_p_data, load_q_data,
\* pv_data, strategy) enters the routine of the strategy (_soc =
\* BATT_SOC_INITIAL, empty lists), whose return value it returns; the else
\* branch calls NotImplemented, which is not callable: TypeError
calculate_setpoints ==
    /\ pc = "call"
    /\ \E r \in {calculate_setpoints_route(strategy)} :
         IF r = "none"
         THEN /\ pc' = "error" /\ err' = "TypeError"
              /\ UNCHANGED <<fn, soc>>
         ELSE /\ fn' = r /\ pc' = "loop"
              /\ soc' = BATT_SOC_INITIAL
              /\ UNCHANGED err
    /\ UNCHANGED <<battery_size, pv_size, n_load, pv_first, pv_last, hour0,
                   t, fuel_usage, cur, n_set, ret, fuelVars, extVars>>

(* ---------------------- optimize_microgrid.objective ------------------- *)

BATT_COST_PER_KWH == 226

PV_COST_PER_KW == 1600

\* candidates x = (pv_size, battery_size) handed to objective: the corners of
\* the search box [500, 2000] x [500, 50000], their neighbours, and zero sizes
ObjectiveInputs == {0, 500, 501, 2000} \X {0, 500, 501, 50000}

\* mutant: the two unit costs are applied to the wrong sizes
objective_costs_swapped(x) == x[2] * PV_COST_PER_KW + BATT_COST_PER_KWH * x[1]

\* optimize_microgrid.py:29: x[1] * BATT_COST_PER_KWH + PV_COST_PER_KW * x[0]
\* (x[0], x[1] of the code are x[1], x[2] here)
objective(x) == x[2] * BATT_COST_PER_KWH + PV_COST_PER_KW * x[1]

\* optimize_microgrid.py:25-29: one call objective(x); the call before it is
\* kept for comparison
objective_call ==
    /\ pc = "idle"
    /\ \E x \in ObjectiveInputs :
         pure' = [fn |-> "objective", x |-> x, ret |-> objective(x),
                  prev |-> IF pure.fn = "objective"
                           THEN <<[x |-> pure.x, ret |-> pure.ret]>>
                           ELSE <<>>]
    /\ UNCHANGED <<dispatchVars, fuelVars,
                   fuel_prior, profile, calls, trace, strategy>>

(* ------------------ basecase.calculate_diesel_setpoints ---------------- *)

\* dt.hour*60 + dt.minute of the timestamps of a 30 min index
HalfHours == {30 * k : k \in 0 .. 47}

\* dt.hour*60 + dt.minute of the k-th timestamp of a 30 min index from start
MinsAt(start, k) == (start + 30 * (k - 1)) % 1440

\* basecase.py:84
basecase_in_window(mins) ==
    \/ mins >= 6 * 60 /\ mins <= 10 * 60 + 30
    \/ mins >= 14 * 60 /\ mins <= 16 * 60 + 30
    \/ (mins >= 22 * 60 \/ mins <= 30)

\* basecase.py:84-89: the set-point appended for one timestamp
basecase_setpoint(mins, load) ==
    IF basecase_in_window(mins) THEN <<0, 0>> ELSE load

\* basecase.py:68-95: calculate_diesel_setpoints(load_p_data, load_q_data) on
\* a 30 min index of n timestamps from start (one call is followed)
calculate_diesel_setpoints ==
    /\ pc = "idle" /\ pure.fn = "none"
    /\ \E start \in HalfHours, n \in 1 .. MaxSeriesLen :
       \E load \in [1 .. n -> LoadPQ] :
         pure' = [fn |-> "calculate_diesel_setpoints", start |-> start,
                  load |-> load,
                  set_diesel |-> [k \in 1 .. n |->
                                    basecase_setpoint(MinsAt(start, k), load[k])]]
    /\ UNCHANGED <<dispatchVars, fuelVars,
                   fuel_prior, profile, calls, trace, strategy>>

\* microgrid.py:129-130
microgrid_in_window(mins) ==
    \/ mins >= 6 * 60 /\ mins <= 10 * 60 + 30
    \/ mins >= 14 * 60 /\ mins <= 16 * 60 + 30
    \/ (mins >= 22 * 60 \/ mins <= 30)

\* microgrid.py:129-135: the set-point appended for one timestamp
microgrid_setpoint(mins, load) ==
    IF microgrid_in_window(mins) THEN <<0, 0>> ELSE load

\* microgrid.py:112-143: calculate_setpoints(load_p_data, load_q_data, pv_data)
\* on a 30 min index of n timestamps from start; the battery set-points are 0
\* (one call is followed)
microgrid_calculate_setpoints ==
    /\ pc = "idle" /\ pure.fn = "none"
    /\ \E start \in HalfHours, n \in 1 .. MaxSeriesLen :
       \E load \in [1 .. n -> LoadPQ] :
         pure' = [fn |-> "microgrid.calculate_setpoints", start |-> start,
                  load |-> load,
                  set_diesel |-> [k \in 1 .. n |->
                                    microgrid_setpoint(MinsAt(start, k), load[k])],
                  set_battery |-> [k \in 1 .. n |-> <<0, 0>>]]
    /\ UNCHANGED <<dispatchVars, fuelVars,
                   fuel_prior, profile, calls, trace, strategy>>

(* ------------------------ get_electricity_price ------------------------ *)

\* years of the indexes built in the sources: 2021 (basecase.py:14) and 2024
\* (optimalsizing.py:6)
Years == {2021, 2024}

\* pandas Timestamp: days of a month of the Gregorian calendar
DaysInMonth(year, month) ==
    IF month = 2 THEN (IF year % 4 = 0 THEN 29 ELSE 28)
    ELSE IF month \in {4, 6, 9, 11} THEN 30 ELSE 31

RECURSIVE DaysBefore(_, _)
\* days of the year before the first of the month
DaysBefore(year, month) ==
    IF month = 1 THEN 0
    ELSE DaysBefore(year, month - 1) + DaysInMonth(year, month - 1)

\* pandas Timestamp.dayofweek (Monday 0 ... Sunday 6); 1 January 2021 is a
\* Friday, 1 January 2024 a Monday
dayofweek(dt) ==
    ((IF dt.year = 2021 THEN 4 ELSE 0) + DaysBefore(dt.year, dt.month) + dt.day - 1) % 7

\* datetime - pd.Timedelta(1, unit='D')
DayBefore(dt) ==
    IF dt.day > 1 THEN [dt EXCEPT !.day = dt.day - 1]
    ELSE IF dt.month > 1
         THEN [dt EXCEPT !.month = dt.month - 1,
                         !.day = DaysInMonth(dt.year, dt.month - 1)]
         ELSE [dt EXCEPT !.year = dt.year - 1, !.month = 12, !.day = 31]

\* the timestamps of an hourly index over the years
Datetimes ==
    {[year |-> y, month |-> m, day |-> d, hour |-> h] :
        y \in Years, m \in 1 .. 12, d \in 1 .. 31, h \in Hours}

\* lib.py:76: the (day, month) pairs of the public holidays
holidays ==
    {<<1, 1>>, <<21, 3>>, <<29, 3>>, <<1, 4>>, <<27, 4>>, <<1, 5>>, <<29, 5>>,
     <<16, 6>>, <<17, 6>>, <<9, 8>>, <<24, 9>>, <<16, 12>>, <<25, 12>>, <<26, 12>>}

\* lib.py:56-65: the rates of the season [1/1000 euro per kWh]
rates(month) ==
    IF 4 <= month /\ month <= 9
    THEN [peak |-> 117, standard |-> 88, offpeak |-> 68]
    ELSE [peak |-> 279, standard |-> 106, offpeak |-> 73]

\* lib.py:72-75 and 79-82: Saturday and public holiday
saturday(hour, r) ==
    IF (7 <= hour /\ hour < 12) \/ (18 <= hour /\ hour < 20)
    THEN r.standard ELSE r.offpeak

\* lib.py:85-90: weekday
weekday(hour, r) ==
    IF (7 <= hour /\ hour < 10) \/ (18 <= hour /\ hour < 20) THEN r.peak
    ELSE IF hour = 6 \/ (10 <= hour /\ hour < 18) \/ (20 <= hour /\ hour < 21)
         THEN r.standard
         ELSE r.offpeak

\* lib.py:56-92: get_electricity_price(datetime)
get_electricity_price(dt) ==
    IF dayofweek(dt) = 6 THEN rates(dt.month).offpeak
    ELSE IF dayofweek(dt) = 5 THEN saturday(dt.hour, rates(dt.month))
    ELSE IF \/ <<dt.day, dt.month>> \in holidays
            \/ /\ dayofweek(dt) = 0
               /\ <<DayBefore(dt).day, DayBefore(dt).month>> \in holidays
         THEN saturday(dt.hour, rates(dt.month))
         ELSE weekday(dt.hour, rates(dt.month))

\* lib.py:34-92: one call get_electricity_price(datetime) (one call is followed)
get_electricity_price_call ==
    /\ pc = "idle" /\ pure.fn = "none"
    /\ \E dt \in Datetimes :
         /\ dt.day <= DaysInMonth(dt.year, dt.month)
         /\ pure' = [fn |-> "get_electricity_price", datetime |-> dt,
                     ret |-> get_electricity_price(dt)]
    /\ UNCHANGED <<dispatchVars, fuelVars,
                   fuel_prior, profile, calls, trace, strategy>>

\* basecase.py:194: the (day, month) pairs of the public holidays
basecase_holidays ==
    {<<1, 1>>, <<21, 3>>, <<29, 3>>, <<1, 4>>, <<27, 4>>, <<1, 5>>, <<29, 5>>,
     <<16, 6>>, <<17, 6>>, <<9, 8>>, <<24, 9>>, <<16, 12>>, <<25, 12>>, <<26, 12>>}

\* basecase.py:174-183: the rates of the season [1/1000 euro per kWh]
basecase_rates(month) ==
    IF 4 <= month /\ month <= 9
    THEN [peak |-> 117, standard |-> 88, offpeak |-> 68]
    ELSE [peak |-> 279, standard |-> 106, offpeak |-> 73]

\* basecase.py:190-193 and 197-200: Saturday and public holiday
basecase_saturday(hour, r) ==
    IF (7 <= hour /\ hour < 12) \/ (18 <= hour /\ hour < 20)
    THEN r.standard ELSE r.offpeak

\* basecase.py:203-208: weekday
basecase_weekday(hour, r) ==
    IF (7 <= hour /\ hour < 10) \/ (18 <= hour /\ hour < 20) THEN r.peak
    ELSE IF hour = 6 \/ (10 <= hour /\ hour < 18) \/ (20 <= hour /\ hour < 21)
         THEN r.standard
         ELSE r.offpeak

\* basecase.py:174-210: get_electricity_price(datetime)
basecase_get_electricity_price(dt) ==
    IF dayofweek(dt) = 6 THEN basecase_rates(dt.month).offpeak
    ELSE IF dayofweek(dt) = 5 THEN basecase_saturday(dt.hour, basecase_rates(dt.month))
    ELSE IF \/ <<dt.day, dt.month>> \in basecase_holidays
            \/ /\ dayofweek(dt) = 0
               /\ <<DayBefore(dt).day, DayBefore(dt).month>> \in basecase_holidays
         THEN basecase_saturday(dt.hour, basecase_rates(dt.month))
         ELSE basecase_weekday(dt.hour, basecase_rates(dt.month))

\* basecase.py:156-210: one call get_electricity_price(datetime) of the base
\* case (one call is followed)
basecase_get_electricity_price_call ==
    /\ pc = "idle" /\ pure.fn = "none"
    /\ \E dt \in Datetimes :
         /\ dt.day <= DaysInMonth(dt.year, dt.month)
         /\ pure' = [fn |-> "basecase.get_electricity_price", datetime |-> dt,
                     ret |-> basecase_get_electricity_price(dt)]
    /\ UNCHANGED <<dispatchVars, fuelVars,
                   fuel_prior, profile, calls, trace, strategy>>

(* ------------------------------ lib.calc_s ----------------------------- *)

\* A result r of calc_s is kept as its signed square r*|r|, which determines
\* r (math.sqrt and the sign are applied last in both forms).

\* active and reactive powers handed to calc_s
CalcInputs == {-4, -3, 0, 3, 4}

\* lib.py:157-158: math.copysign(x ** 2, x)
calc_s_copysign_square(x) == IF x >= 0 THEN x * x ELSE -(x * x)

\* lib.py:157-160: Series form, one element: sqrt of the sum of the signed
\* squares if that sum is >= 0, else minus the sqrt of its negation
calc_s_series_element(p, q) == calc_s_copysign_square(p) + calc_s_copysign_square(q)

\* lib.py:167: math.copysign(math.sqrt(p**2 + q**2), p)
calc_s_scalar(p, q) == IF p >= 0 THEN p * p + q * q ELSE -(p * p + q * q)

\* lib.py:155-168: calc_s(p, q) on two numbers (one call is followed)
calc_s_call_scalar ==
    /\ pc = "idle" /\ pure.fn = "none"
    /\ \E p \in CalcInputs, q \in CalcInputs :
         pure' = [fn |-> "calc_s", form |-> "scalar", p |-> <<p>>, q |-> <<q>>,
                  ret |-> <<calc_s_scalar(p, q)>>]
    /\ UNCHANGED <<dispatchVars, fuelVars,
                   fuel_prior, profile, calls, trace, strategy>>

\* lib.py:155-160: calc_s(p, q) on two Series of n elements (one call is
\* followed)
calc_s_call_series ==
    /\ pc = "idle" /\ pure.fn = "none"
    /\ \E n \in 1 .. MaxSeriesLen :
       \E p \in [1 .. n -> CalcInputs], q \in [1 .. n -> CalcInputs] :
         pure' = [fn |-> "calc_s", form |-> "series", p |-> p, q |-> q,
                  ret |-> [k \in 1 .. n |-> calc_s_series_element(p[k], q[k])]]
    /\ UNCHANGED <<dispatchVars, fuelVars,
                   fuel_prior, profile, calls, trace, strategy>>

\* lib.py:161-165: calc_s(p, q) on two DataFrames, of which the first columns
\* (n elements) are taken (one call is followed)
calc_s_call_dataframe ==
    /\ pc = "idle" /\ pure.fn = "none"
    /\ \E n \in 1 .. MaxSeriesLen :
       \E p \in [1 .. n -> CalcInputs], q \in [1 .. n -> CalcInputs] :
         pure' = [fn |-> "calc_s", form |-> "dataframe", p |-> p, q |-> q,
                  ret |-> [k \in 1 .. n |-> calc_s_series_element(p[k], q[k])]]
    /\ UNCHANGED <<dispatchVars, fuelVars,
                   fuel_prior, profile, calls, trace, strategy>>

(* -------------------------- lib.calculate_soc -------------------------- *)

\* lib.py:137: s = math.sqrt(p["BESS"][i]**2 + q["BESS"][i]**2)
calculate_soc_magnitude(p, q) == sqrt(p * p + q * q)

\* mutant: the magnitude does not take the sign of p
calculate_soc_signed_unsigned(p, s) == s

\* lib.py:138-139: if p["BESS"][i] < 0: s *= -1
calculate_soc_signed(p, s) == IF p < 0 THEN -s ELSE s

\* lib.py:140-145: soc -= s / eff or s * eff (eff = BATT_EFFICIENCY);
\* soc = min(soc, nom_energy); soc = max(0, soc); energies in 1/90 kWh
calculate_soc_step(soc_prev, s, nom_energy) ==
    max(0, min(IF s >= 0 THEN soc_prev - DivEff(s) ELSE soc_prev - MulEff(s),
               nom_energy))

\* lib.py:134-147: soc after the first k elements of p and q
RECURSIVE calculate_soc_loop(_, _, _, _, _)
calculate_soc_loop(p, q, nom_energy, soc_init, k) ==
    IF k = 0 THEN soc_init
    ELSE calculate_soc_step(
             calculate_soc_loop(p, q, nom_energy, soc_init, k - 1),
             calculate_soc_signed(p[k], calculate_soc_magnitude(p[k], q[k])),
             nom_energy)

\* lib.py:133-152: the Series returned; x / nom_energy * 100 is kept as the
\* fraction num / den
calculate_soc(p, q, nom_energy, soc_init) ==
    [k \in 1 .. Len(p) |->
        [num |-> 100 * calculate_soc_loop(p, q, nom_energy, soc_init, k),
         den |-> nom_energy]]

\* microgrid_pf.py:414: calculate_soc(store_p, store_q, BATT_NOM_ENERGY,
\* BATT_SOC_INITIAL, BATT_EFFICIENCY) on the battery set-points of the run
\* of calculate_setpoints_priority just made
calculate_soc_call ==
    /\ pc = "done" /\ fn = "priority" /\ pure.fn = "none"
    /\ RunsOf(RunConfig) = 1
    /\ \E steps \in {trace[RunConfig].steps} :
       \E p \in {[k \in 1 .. Len(steps) |-> steps[k].cur.p_set_battery]},
          q \in {[k \in 1 .. Len(steps) |-> steps[k].cur.q_set_battery]} :
         pure' = [fn |-> "calculate_soc", p |-> p, q |-> q,
                  ret |-> calculate_soc(p, q, Energy(BATT_NOM_ENERGY),
                                        BATT_SOC_INITIAL)]
    /\ UNCHANGED <<dispatchVars, fuelVars,
                   fuel_prior, profile, calls, trace, strategy>>

(* --------------------------- specifications ---------------------------- *)

InitFuelIdle ==
    /\ f_mode = "none" /\ f_arg = <<>> /\ f_ret = 0
    /\ f_prev = [called |-> FALSE, arg |-> 0, ret |-> 0]

\* nothing beyond the run at hand: no earlier timestamps, no profile shared
\* with other runs, no dispatcher, no call of the other functions
InitExtIdle ==
    /\ fuel_prior = 0 /\ profile = <<>> /\ calls = <<>> /\ trace = <<>>
    /\ strategy = "none" /\ pure = [fn |-> "none"]

\* a run of calculate_setpoints_priority(load_p_data, load_q_data, pv_data)
\* or of constraint(x) starts
InitRun ==
    /\ t = 0 /\ fuel_usage = 0 /\ cur = NoStep /\ n_set = 0
    /\ pc = "loop" /\ err = "none" /\ ret = 0
    /\ \/ /\ fn = "priority"
          /\ battery_size = BATT_NOM_ENERGY
          /\ pv_size = 1
       \/ /\ fn = "constraint"
          /\ \E x \in Candidates : pv_size = x[1] /\ battery_size = x[2]
    /\ soc = Frac50(battery_size)
    /\ InitFuelIdle
    /\ InitExtIdle

\* load and PV series of the same length on the same hourly timestamps
Init ==
    /\ InitRun
    /\ hour0 \in Hours
    /\ n_load \in 1 .. MaxSteps
    /\ pv_first = 1 /\ pv_last = n_load

Next ==
    \/ calculate_setpoints_priority
    \/ priority_return
    \/ constraint
    \/ constraint_return

Spec == Init /\ [][Next]_vars

\* load series from 00:00 on, and a PV series on any non-empty range of
\* hourly timestamps from one hour before the load's first to one hour after
\* the load's last
InitSeries ==
    /\ InitRun
    /\ hour0 = 0
    /\ n_load \in 1 .. MaxSteps
    /\ pv_first \in 0 .. 2
    /\ pv_last \in pv_first .. (n_load + 1)

SpecSeries == InitSeries /\ [][Next]_vars

\* fuel used before the timestamps simulated here [1/750 l]: none, or what
\* leaves the run one 750 kVA (202 l) or one 250 kVA (76 l) diesel hour away
\* from 0.09*318242 l, 1/750 l closer than that, or at it already
PriorFuel ==
    {0, 21481335 - 151501, 21481335 - 151500, 21481335 - 57000, 21481335}

\* first hours of the series ending a long run: grid-unavailable, grid-available
ThresholdHours == {0, 10}

\* constraint(x) on the last timestamps of a long series
InitThreshold ==
    /\ t = 0 /\ fuel_usage = 0 /\ cur = NoStep /\ n_set = 0
    /\ pc = "loop" /\ err = "none" /\ ret = 0
    /\ fn = "constraint"
    /\ \E x \in Candidates : pv_size = x[1] /\ battery_size = x[2]
    /\ soc = Frac50(battery_size)
    /\ hour0 \in ThresholdHours
    /\ n_load \in 1 .. MaxSteps
    /\ pv_first = 1 /\ pv_last = n_load
    /\ InitFuelIdle
    /\ fuel_prior \in PriorFuel
    /\ profile = <<>> /\ calls = <<>> /\ trace = <<>>
    /\ strategy = "none" /\ pure = [fn |-> "none"]

NextThreshold ==
    \/ constraint
    \/ constraint_return

SpecThreshold == InitThreshold /\ [][NextThreshold]_vars

\* first hour of the profiles: 23:00, so that two hours without grid come
\* before the first hour with grid
RunHours == {23}

\* the module is loaded with its profiles; no run has been made
InitRuns ==
    /\ profile \in Profiles
    /\ n_load = Len(profile) /\ pv_first = 1 /\ pv_last = n_load
    /\ hour0 \in RunHours
    /\ fn = "none" /\ battery_size = 0 /\ pv_size = 0
    /\ t = 0 /\ soc = 0 /\ fuel_usage = 0 /\ cur = NoStep /\ n_set = 0
    /\ pc = "ready" /\ err = "none" /\ ret = 0
    /\ InitFuelIdle
    /\ fuel_prior = 0 /\ calls = <<>>
    /\ trace = [c \in RunConfigs |-> [steps |-> <<>>, result |-> <<>>]]
    /\ strategy = "none" /\ pure = [fn |-> "none"]

NextRuns ==
    \/ priority_call
    \/ priority_on_profile
    \/ priority_return_on_profile
    \/ constraint_call
    \/ constraint_on_profile
    \/ constraint_return_on_profile

SpecRuns == InitRuns /\ [][NextRuns]_vars

\* no dispatch run: the functions below are called on their own
InitDispatchIdle ==
    /\ fn = "none" /\ battery_size = 0 /\ pv_size = 0 /\ n_load = 0
    /\ pv_first = 0 /\ pv_last = 0 /\ hour0 = 0 /\ t = 0 /\ soc = 0
    /\ fuel_usage = 0 /\ cur = NoStep /\ n_set = 0
    /\ pc = "idle" /\ err = "none" /\ ret = 0

\* calls of objective
InitObjective == InitDispatchIdle /\ InitFuelIdle /\ InitExtIdle

NextObjective == objective_call

SpecObjective == InitObjective /\ [][NextObjective]_vars

\* calls of the base-case set-point routines
InitBasecase == InitDispatchIdle /\ InitFuelIdle /\ InitExtIdle

NextBasecase ==
    \/ calculate_diesel_setpoints
    \/ microgrid_calculate_setpoints

SpecBasecase == InitBasecase /\ [][NextBasecase]_vars

\* calls of get_electricity_price
InitPrice == InitDispatchIdle /\ InitFuelIdle /\ InitExtIdle

NextPrice ==
    \/ get_electricity_price_call
    \/ basecase_get_electricity_price_call

SpecPrice == InitPrice /\ [][NextPrice]_vars

\* calculate_setpoints is called on load and PV series of the same length on
\* the same hourly timestamps
InitCall ==
    /\ strategy \in Strategies
    /\ pc = "call" /\ fn = "none"
    /\ battery_size = BATT_NOM_ENERGY /\ pv_size = 1
    /\ hour0 \in Hours
    /\ n_load \in 1 .. MaxSteps
    /\ pv_first = 1 /\ pv_last = n_load
    /\ t = 0 /\ soc = 0 /\ fuel_usage = 0 /\ cur = NoStep /\ n_set = 0
    /\ err = "none" /\ ret = 0
    /\ InitFuelIdle
    /\ fuel_prior = 0 /\ profile = <<>> /\ calls = <<>> /\ trace = <<>>
    /\ pure = [fn |-> "none"]

NextCall ==
    \/ calculate_setpoints
    \/ calculate_setpoints_priority
    \/ priority_return
    \/ calculate_setpoints_tou
    \/ tou_return

SpecCall == InitCall /\ [][NextCall]_vars

\* hours at which the replayed runs start (grid unavailable, available)
ReplayHours == {10, 23}

\* calculate_setpoints_priority on the profiles, then calculate_soc on its
\* battery set-points
InitReplay ==
    /\ profile \in Profiles
    /\ n_load = Len(profile) /\ pv_first = 1 /\ pv_last = n_load
    /\ hour0 \in ReplayHours
    /\ fn = "none" /\ battery_size = 0 /\ pv_size = 0
    /\ t = 0 /\ soc = 0 /\ fuel_usage = 0 /\ cur = NoStep /\ n_set = 0
    /\ pc = "ready" /\ err = "none" /\ ret = 0
    /\ InitFuelIdle
    /\ fuel_prior = 0 /\ calls = <<>>
    /\ trace = [c \in RunConfigs |-> [steps |-> <<>>, result |-> <<>>]]
    /\ strategy = "none" /\ pure = [fn |-> "none"]

NextReplay ==
    \/ priority_call
    \/ priority_on_profile
    \/ priority_return_on_profile
    \/ calculate_soc_call

SpecReplay == InitReplay /\ [][NextReplay]_vars

\* calls of calc_s
InitCalcS == InitDispatchIdle /\ InitFuelIdle /\ InitExtIdle

NextCalcS ==
    \/ calc_s_call_scalar
    \/ calc_s_call_series
    \/ calc_s_call_dataframe

SpecCalcS == InitCalcS /\ [][NextCalcS]_vars

\* calls of calculate_diesel_fuel_usage on its own
InitFuel ==
    /\ InitFuelIdle
    /\ InitExtIdle
    /\ fn = "none" /\ battery_size = 0 /\ pv_size = 0 /\ n_load = 0
    /\ pv_first = 0 /\ pv_last = 0 /\ hour0 = 0 /\ t = 0 /\ soc = 0
    /\ fuel_usage = 0 /\ cur = NoStep /\ n_set = 0
    /\ pc = "idle" /\ err = "none" /\ ret = 0

NextFuel ==
    \/ fuel_call_scalar
    \/ fuel_call_series

SpecFuel == InitFuel /\ [][NextFuel]_vars

(* ------------------------------- claims -------------------------------- *)

\* what PV, battery and diesel supply together in the latest iteration
Supplied == cur.s_pv + cur.s_batt + cur.s_diesel

GridUnavailable == cur.hour \notin GRID_AVAILABLE_HOURS

\* C1: a run starts at SOC = 50 % of the capacity and after every timestep
\* 0 <= SOC <= battery capacity, in calculate_setpoints_priority and in
\* constraint, for every capacity >= 0.
C1_SocWithinCapacity ==
    /\ t = 0 => soc = Frac50(battery_size)
    /\ 0 <= soc /\ soc <= Energy(battery_size)

\* C1 witness: a timestep charged a battery of positive capacity beyond its
\* capacity and the clamp brought SOC back to the capacity.
C1_Witness ==
    /\ t > 0 /\ battery_size > 0
    /\ cur.soc_raw > Energy(battery_size)
    /\ soc = Energy(battery_size)

\* C2 (as claimed): at every timestep whose hour is not in
\* GRID_AVAILABLE_HOURS the PV, battery and diesel set-points sum exactly to
\* the load magnitude, so that the slack grid supplies 0.
C2_NoGridWhenUnavailable ==
    (t > 0 /\ GridUnavailable) => Supplied = cur.s_load

\* C3: at every timestep PV + battery + diesel never exceed the load
\* magnitude: the grid residual is never negative (no feed-in).
C3_NoFeedIn ==
    t > 0 => Supplied <= cur.s_load

\* C3 witness: the diesel generator ran above the gap at its minimum output
\* and the excess went into the battery.
C3_Witness ==
    /\ t > 0 /\ cur.branch = "diesel"
    /\ cur.s_diesel > cur.s_load - cur.pv
    /\ cur.s_batt < 0
    /\ Supplied = cur.s_load

\* C4: at every timestep the diesel set-point is 0 or lies within [250, 750].
C4_DieselZeroOrWithinLimits ==
    t > 0 => \/ cur.s_diesel = 0
             \/ 250 <= cur.s_diesel /\ cur.s_diesel <= 750

\* C4 witness: a gap below 250 raised the diesel set-point to 250.
C4_Witness ==
    /\ t > 0 /\ cur.branch = "diesel"
    /\ cur.s_load - cur.pv < 250
    /\ cur.s_diesel = 250

\* C5 (as claimed): at every timestep the PV set-point is between 0 and the
\* load magnitude s_load, also where the PV surplus is routed into the battery.
C5_PvNeverAboveLoad ==
    t > 0 => 0 <= cur.s_pv /\ cur.s_pv <= cur.s_load

\* C5 (amended): at every timestep the PV set-point is between 0 and the PV
\* potential; it is at most s_load except where the PV surplus is routed into
\* the battery, where it is the whole PV potential, above s_load, and PV plus
\* the (negative) battery set-point is exactly s_load.
C5_PvWithinPotential ==
    t > 0 =>
        /\ 0 <= cur.s_pv /\ cur.s_pv <= cur.pv
        /\ cur.branch # "pv_charge" => cur.s_pv <= cur.s_load
        /\ cur.branch = "pv_charge" =>
               /\ cur.s_pv = cur.pv /\ cur.s_pv > cur.s_load
               /\ cur.s_pv + cur.s_batt = cur.s_load

\* C5 witness: calculate_setpoints_priority routed a PV surplus into the
\* battery and emitted an active-power PV set-point above the load's.
C5_Witness ==
    /\ t > 0 /\ fn = "priority" /\ pc = "loop"
    /\ cur.branch = "pv_charge"
    /\ cur.s_pv > cur.s_load
    /\ cur.p_set_pv > cur.load_p

\* C6 (as claimed): with battery capacity 0 the battery set-point is 0 and
\* SOC stays 0 at every timestep.
C6_ZeroCapacityBatteryIdle ==
    battery_size = 0 => soc = 0 /\ (t > 0 => cur.s_batt = 0)

\* reference curve of C8: piecewise linear through (0, 0), (187.5, 62),
\* (375, 104), (562.5, 149), (750, 202) [kVA, l], the last slope extended;
\* abscissae in 0.5 kVA, result in 1/375 l
RefPoints == <<  <<0, 0>>, <<375, 62>>, <<750, 104>>, <<1125, 149>>, <<1500, 202>>  >>

RefSegment(v2) ==
    IF v2 >= RefPoints[4][1] THEN 4
    ELSE CHOOSE i \in 1 .. 3 : RefPoints[i][1] <= v2 /\ v2 < RefPoints[i + 1][1]

RefCurve(v2) ==
    LET i  == RefSegment(v2)
        x0 == RefPoints[i][1]
        x1 == RefPoints[i + 1][1]
        y0 == RefPoints[i][2]
        y1 == RefPoints[i + 1][2]
    IN  375 * y0 + (375 * (y1 - y0) * (v2 - x0)) \div (x1 - x0)

RECURSIVE SumOfScalarCalls(_)
SumOfScalarCalls(values) ==
    IF values = <<>> THEN 0
    ELSE calculate_diesel_fuel_usage(Head(values)) + SumOfScalarCalls(Tail(values))

\* C7: calculate_diesel_fuel_usage is monotonically non-decreasing over
\* power >= 0 and returns exactly 62 at 187.5, 104 at 375, 149 at 562.5 and
\* 202 at 750 kVA.
C7_FuelMonotoneAndCalibrated ==
    f_mode = "scalar" =>
        /\ (f_prev.called /\ 0 <= f_prev.arg /\ f_prev.arg <= f_arg[1])
               => f_prev.ret <= f_ret
        /\ (f_prev.called /\ 0 <= f_arg[1] /\ f_arg[1] <= f_prev.arg)
               => f_ret <= f_prev.ret
        /\ f_arg[1] = 375  => f_ret = 62 * 375
        /\ f_arg[1] = 750  => f_ret = 104 * 375
        /\ f_arg[1] = 1125 => f_ret = 149 * 375
        /\ f_arg[1] = 1500 => f_ret = 202 * 375

\* C7 witness: 750 kVA was evaluated after 187.5 kVA, with 202 l and 62 l.
C7_Witness ==
    /\ f_mode = "scalar" /\ f_prev.called
    /\ f_prev.arg = 375 /\ f_prev.ret = 62 * 375
    /\ f_arg[1] = 1500 /\ f_ret = 202 * 375

\* C8: for every power v >= 0 calculate_diesel_fuel_usage(v) is the reference
\* curve; the third branch (lower bound written 0.5) is only taken for
\* 375 <= v < 562.5; the Series form returns the sum of the scalar form over
\* its elements.
C8_FuelIsReferenceCurve ==
    /\ (f_mode = "scalar" /\ f_arg[1] >= 0) =>
           /\ f_ret = RefCurve(f_arg[1])
           /\ fuel_branch_scalar(f_arg[1]) = 3
                  => 750 <= f_arg[1] /\ f_arg[1] < 1125
    /\ f_mode = "series" =>
           /\ f_ret = SumOfScalarCalls(f_arg)
           /\ \A k \in 1 .. Len(f_arg) :
                  (f_arg[k] >= 0 /\ fuel_branch_series(f_arg[k]) = 3)
                      => 750 <= f_arg[k] /\ f_arg[k] < 1125

\* C8 witness: a Series of 0.5 kVA (the written lower bound of the third
\* branch) and 562 kVA (inside the third segment) was evaluated.
C8_Witness ==
    /\ f_mode = "series" /\ Len(f_arg) = 2
    /\ f_arg[1] = 1 /\ f_arg[2] = 1124
    /\ f_ret = 62 * 1 + (45 * (1124 - 750) + 104 * 375)

\* C9 (as claimed): at a timestep with s_load = 0 calculate_setpoints_priority
\* emits all-zero PV, battery and diesel (p, q) set-points and raises no
\* division-by-zero error.
C9_ZeroLoadZeroSetpoints ==
    (fn = "priority" /\ t > 0 /\ cur.s_load = 0) =>
        /\ pc # "error"
        /\ n_set = t
        /\ cur.p_set_pv = 0 /\ cur.q_set_pv = 0
        /\ cur.p_set_battery = 0 /\ cur.q_set_battery = 0
        /\ cur.p_set_diesel = 0 /\ cur.q_set_diesel = 0

\* the load and PV series differ in length or in timestamp alignment
SeriesMismatch == pv_first # 1 \/ pv_last # n_load

\* C10 (as claimed): when the load and PV series differ in length or
\* timestamp alignment the run is rejected before the first timestep: no SOC
\* update is made, no set-point is computed and the run does not complete.
C10_MismatchRejectedBeforeFirstStep ==
    SeriesMismatch =>
        /\ t = 0 /\ n_set = 0 /\ soc = Frac50(battery_size)
        /\ pc # "done"

\* C11: diesel is dispatched only at timesteps whose hour is not in
\* GRID_AVAILABLE_HOURS: at a grid-available timestep the diesel set-point is
\* 0; while every timestep so far was grid-available no fuel has been used;
\* and with load 100, PV 0 and capacity 0 at a grid-available hour the grid
\* covers the whole load.
C11_DieselOnlyWhenGridUnavailable ==
    t > 0 =>
        /\ ~GridUnavailable => cur.s_diesel = 0
        /\ (\A i \in 1 .. t : HourAt(i) \in GRID_AVAILABLE_HOURS) => fuel_usage = 0
        /\ (~GridUnavailable /\ cur.s_load = 100 /\ cur.pv = 0 /\ battery_size = 0)
              => cur.s_load - Supplied = 100

\* C11 witness: constraint with capacity 0 ran all MaxSteps timesteps at
\* grid-available hours with load 100 and no PV; the grid took the load.
C11_Witness ==
    /\ fn = "constraint" /\ battery_size = 0 /\ pc = "done" /\ t = MaxSteps
    /\ \A i \in 1 .. t : HourAt(i) \in GRID_AVAILABLE_HOURS
    /\ cur.s_load = 100 /\ cur.pv = 0 /\ cur.branch = "grid"
    /\ cur.s_diesel = 0 /\ fuel_usage = 0 /\ ret = 1

\* C20: when the PV potential exceeds the load by a surplus d and
\* SOC <= capacity - d*0.9, the step sets the battery set-point to -d, raises
\* SOC by exactly d*0.9 and leaves diesel and grid at 0.
C20_SurplusChargesBattery ==
    (/\ t > 0 /\ cur.pv > cur.s_load
     /\ cur.soc0 <= Energy(battery_size) - MulEff(cur.pv - cur.s_load)) =>
        /\ cur.s_batt = -(cur.pv - cur.s_load)
        /\ soc = cur.soc0 + MulEff(cur.pv - cur.s_load)
        /\ cur.s_diesel = 0
        /\ cur.s_load - Supplied = 0

\* C20 witness: load 100, PV 150, capacity 1000 kWh at SOC 500 kWh: the step
\* charged 50 kVA and SOC is 545 kWh.
C20_Witness ==
    /\ t > 0 /\ fn = "constraint" /\ battery_size = 1000
    /\ cur.s_load = 100 /\ cur.pv = 150
    /\ cur.soc0 = Energy(500) /\ cur.s_batt = -50 /\ soc = Energy(545)

\* fuel accumulated over the whole series [1/750 l]
FuelTotal750 == fuel_prior + 2 * fuel_usage

\* C13: constraint(x) returns 1 exactly when the fuel accumulated over the
\* whole series is strictly below 0.09*318242 l (fuel/750 < 9*318242/100),
\* returns -1 otherwise, the threshold itself included, and returns no other
\* value.
C13_VerdictByFuelThreshold ==
    fn = "constraint" =>
        /\ pc = "done" =>
              /\ ret \in {1, -1}
              /\ ret = 1 <=> 2 * FuelTotal750 < 9 * 318242 * 15
        /\ pc # "done" => ret = 0

\* C13 witness: a run whose diesel hours brought the fuel to exactly
\* 0.09*318242 l returned -1.
C13_Witness ==
    /\ fn = "constraint" /\ pc = "done"
    /\ fuel_usage > 0
    /\ 2 * FuelTotal750 = 9 * 318242 * 15
    /\ ret = -1

\* C13 witness, other side: a run ending 1/750 l below the threshold
\* returned 1.
C13_WitnessBelow ==
    /\ fn = "constraint" /\ pc = "done"
    /\ fuel_usage > 0
    /\ 2 * FuelTotal750 = 9 * 318242 * 15 - 2
    /\ ret = 1

\* state of the run in progress, as against the record of the first run of
\* the same configuration
RunAgreesWithFirst ==
    calls # <<>> =>
        /\ t = 0 => soc = Frac50(battery_size) /\ fuel_usage = 0
        /\ t <= Len(trace[RunConfig].steps)
        /\ t > 0 => trace[RunConfig].steps[t] =
                        [cur |-> cur, soc |-> soc, fuel_usage |-> fuel_usage]
        /\ pc \in {"done", "error"} =>
              trace[RunConfig].result =
                  <<[pc |-> pc, err |-> err, ret |-> ret, n_set |-> n_set]>>

\* C12: the evaluation is deterministic and run-isolated: every run starts
\* from SOC = 50 % of capacity and fuel = 0, a run of constraint(x) or of
\* calculate_setpoints_priority repeats, step by step and in its result,
\* what the first run on the same inputs computed, whatever runs were made
\* in between, and no step changes the module-level profiles.
C12_RunsDeterministicAndIsolated ==
    []RunAgreesWithFirst /\ [][profile' = profile]_vars

\* C12 witness: constraint(x) was run, another configuration was run, and
\* the second run of constraint(x) on the same x has returned, after using
\* diesel fuel and ending away from its initial SOC.
C12_Witness ==
    /\ Len(calls) = 3 /\ calls[1] = calls[3] /\ calls[2] # calls[1]
    /\ fn = "constraint" /\ pc = "done" /\ t = n_load
    /\ fuel_usage > 0 /\ soc # Frac50(battery_size)
    /\ trace[RunConfig].result # <<>>

\* branch, s_pv, s_batt, s_diesel and SOC of a recorded timestep
StepCore(e) == <<e.cur.branch, e.cur.s_pv, e.cur.s_batt, e.cur.s_diesel, e.soc>>

PriorityRun == <<"priority", 1, BATT_NOM_ENERGY>>

ConstraintRun == <<"constraint", 1, BATT_NOM_ENERGY>>

\* C14: on the same load and PV series (pv_size 1, capacity BATT_NOM_ENERGY),
\* both starting from SOC = 50 % of the capacity, the loop of constraint(x)
\* takes the same branch and computes the same s_pv, s_batt, s_diesel and SOC
\* as calculate_setpoints_priority at every timestep the two go through; once
\* both have ended these are all timesteps of the series, or all up to and
\* including the zero-load timestep at which calculate_setpoints_priority
\* stopped with its ZeroDivisionError.
C14_ConstraintLoopMatchesPriority ==
    LET p == trace[PriorityRun]
        c == trace[ConstraintRun]
    IN  /\ \A k \in 1 .. min(Len(p.steps), Len(c.steps)) :
              StepCore(p.steps[k]) = StepCore(c.steps[k])
        /\ (p.result # <<>> /\ c.result # <<>>) =>
              \/ Len(p.steps) = n_load /\ Len(c.steps) = n_load
              \/ /\ p.result[1].err = "ZeroDivisionError"
                 /\ p.steps[Len(p.steps)].cur.s_load = 0
                 /\ Len(c.steps) = n_load

\* C14 witness: both routines ran the whole profile, going through a
\* battery discharge into the reserve and a diesel start.
C14_Witness ==
    /\ Len(trace[PriorityRun].steps) = n_load
    /\ Len(trace[ConstraintRun].steps) = n_load
    /\ n_load >= 2
    /\ trace[ConstraintRun].steps[1].cur.branch = "batt_below20"
    /\ trace[PriorityRun].steps[1].cur.branch = "batt_below20"
    /\ trace[ConstraintRun].steps[2].cur.branch = "diesel"
    /\ trace[PriorityRun].steps[2].cur.branch = "diesel"

\* C15: objective(x) equals x[1]*226 + x[0]*1600 (battery_size first), a
\* second call with the same x returns the same value (it depends on x
\* alone), and it is strictly increasing in pv_size and in battery_size.
C15_ObjectiveLinearCost ==
    pure.fn = "objective" =>
        /\ pure.ret = pure.x[2] * 226 + pure.x[1] * 1600
        /\ \A b \in {pure.prev[i] : i \in 1 .. Len(pure.prev)} :
              /\ b.x = pure.x => b.ret = pure.ret
              /\ (b.x[1] < pure.x[1] /\ b.x[2] = pure.x[2]) => b.ret < pure.ret
              /\ (b.x[1] = pure.x[1] /\ b.x[2] < pure.x[2]) => b.ret < pure.ret

\* C15 witness: objective((500, 500)) = 913000 was followed by
\* objective((501, 500)) = 914600.
C15_Witness ==
    /\ pure.fn = "objective" /\ pure.prev # <<>>
    /\ pure.prev[1].x = <<500, 500>> /\ pure.prev[1].ret = 913000
    /\ pure.x = <<501, 500>> /\ pure.ret = 914600

\* time of day within 06:00-10:30, 14:00-16:30 or 22:00-00:30
NoGridTime(mins) ==
    \/ 360 <= mins /\ mins <= 630
    \/ 840 <= mins /\ mins <= 990
    \/ 1320 <= mins \/ mins <= 30

\* C16 (as claimed): the base-case routines set the diesel (p, q) set-point
\* to the load (p, q) at every timestamp within 06:00-10:30, 14:00-16:30 or
\* 22:00-00:30 and to 0 at every other timestamp.
C16_DieselSuppliesLoadWithoutGrid ==
    pure.fn \in {"calculate_diesel_setpoints", "microgrid.calculate_setpoints"} =>
        \A k \in 1 .. Len(pure.load) :
            pure.set_diesel[k] = IF NoGridTime(MinsAt(pure.start, k))
                                 THEN pure.load[k]
                                 ELSE <<0, 0>>

\* the date is one of the listed public holidays, or the Monday after one
\* that fell on a Sunday
PublicHoliday(dt) ==
    LET listed == {<<1, 1>>, <<21, 3>>, <<29, 3>>, <<1, 4>>, <<27, 4>>, <<1, 5>>,
                   <<29, 5>>, <<16, 6>>, <<17, 6>>, <<9, 8>>, <<24, 9>>,
                   <<16, 12>>, <<25, 12>>, <<26, 12>>}
    IN  \/ <<dt.day, dt.month>> \in listed
        \/ /\ dayofweek(dt) = 0
           /\ <<DayBefore(dt).day, DayBefore(dt).month>> \in listed

\* the tariff of the docstring [1/1000 euro per kWh]: peak, standard,
\* off-peak in summer (months 4-9) and in winter
TariffRate(month, period) ==
    IF 4 <= month /\ month <= 9
    THEN (IF period = "peak" THEN 117 ELSE IF period = "standard" THEN 88 ELSE 68)
    ELSE (IF period = "peak" THEN 279 ELSE IF period = "standard" THEN 106 ELSE 73)

\* C19 (as claimed): on a weekday (Mon-Fri) that is not a public holiday
\* get_electricity_price returns the season's standard rate for hours 06,
\* 10-17 and 20-21, the peak rate for hours 07-09 and 18-19 and the off-peak
\* rate for all other hours, with the summer rates for months 4-9 and the
\* winter rates otherwise.
C19_WeekdayTariff ==
    (/\ pure.fn \in {"get_electricity_price", "basecase.get_electricity_price"}
     /\ dayofweek(pure.datetime) \in 0 .. 4
     /\ ~PublicHoliday(pure.datetime)) =>
        pure.ret = TariffRate(pure.datetime.month,
                      IF pure.datetime.hour \in ({6} \cup (10 .. 17) \cup (20 .. 21))
                      THEN "standard"
                      ELSE IF pure.datetime.hour \in ((7 .. 9) \cup (18 .. 19))
                           THEN "peak"
                           ELSE "offpeak")

\* the same tariff with hour 21 left out of the standard hours: what the
\* code computes
C19_WeekdayTariffButHour21 ==
    (/\ pure.fn \in {"get_electricity_price", "basecase.get_electricity_price"}
     /\ dayofweek(pure.datetime) \in 0 .. 4
     /\ ~PublicHoliday(pure.datetime)
     /\ pure.datetime.hour # 21) =>
        pure.ret = TariffRate(pure.datetime.month,
                      IF pure.datetime.hour \in ({6} \cup (10 .. 17) \cup {20})
                      THEN "standard"
                      ELSE IF pure.datetime.hour \in ((7 .. 9) \cup (18 .. 19))
                           THEN "peak"
                           ELSE "offpeak")

\* the hour is an off-peak price hour of an ordinary winter weekday
\* (Wednesday 6 January 2021)
OffPeakHour(hour) ==
    get_electricity_price([year |-> 2021, month |-> 1, day |-> 6, hour |-> hour])
        = rates(1).offpeak

\* C17 (as claimed): under strategy 'tou' the grid supplies load only during
\* off-peak price hours (in standard and peak hours the load is left to PV,
\* battery and diesel), and during off-peak hours the battery is recharged
\* whenever its SOC is below 50 % of capacity.
C17_TouFollowsPricePeriods ==
    (fn = "tou" /\ t > 0) =>
        /\ cur.s_load - Supplied > 0 => OffPeakHour(cur.hour)
        /\ (OffPeakHour(cur.hour) /\ cur.soc0 < Frac50(battery_size))
              => cur.s_batt < 0

\* C18: calculate_setpoints called with a strategy other than 'priority' or
\* 'tou' fails with an error before any timestep and returns no set-points;
\* with 'priority' or 'tou' the routine of that strategy runs, and what is
\* returned are its six series, one set-point per timestamp each.
C18_DispatcherRoutesStrategy ==
    strategy # "none" =>
        /\ strategy \notin {"priority", "tou"} =>
              /\ pc \in {"call", "error"}
              /\ pc = "error" => err # "none"
              /\ fn = "none" /\ t = 0 /\ n_set = 0
        /\ (strategy \in {"priority", "tou"} /\ pc # "call") =>
              /\ fn = strategy
              /\ pc = "done" => t = n_load /\ n_set = n_load

\* C18 witness: the call with another strategy has failed, nothing computed.
C18_Witness ==
    /\ strategy = "pso" /\ pc = "error" /\ err = "TypeError"
    /\ fn = "none" /\ n_set = 0

\* C18 witness, routed: the call with 'tou' has returned the series of
\* calculate_setpoints_tou, a diesel hour among them.
C18_WitnessRouted ==
    /\ strategy = "tou" /\ pc = "done" /\ fn = "tou"
    /\ n_set = n_load /\ n_load = MaxSteps /\ cur.s_diesel > 0

\* shortfall of the latest timestep: load - PV potential
Shortfall == cur.s_load - cur.pv

\* C21: when a PV surplus d does not fit (SOC > capacity - d*0.9) the PV
\* set-point is cut to exactly the load, the battery set-point is 0 and SOC
\* is unchanged, even if part of the surplus would fit; after any timestep
\* the PV set-point is the full PV potential or exactly the load.
C21_SurplusCurtailedWhole ==
    t > 0 =>
        /\ (/\ cur.pv > cur.s_load
            /\ cur.soc0 > Energy(battery_size) - MulEff(cur.pv - cur.s_load)) =>
              /\ cur.s_pv = cur.s_load
              /\ cur.s_batt = 0
              /\ soc = cur.soc0
        /\ cur.s_pv = cur.pv \/ cur.s_pv = cur.s_load

\* C21 witness: a surplus met a battery with room left, yet too little for
\* all of it: PV was cut to the load and SOC stayed.
C21_Witness ==
    /\ t > 0 /\ fn = "constraint" /\ battery_size = 100
    /\ cur.pv > cur.s_load /\ cur.s_load > 0
    /\ cur.soc0 < Energy(battery_size)
    /\ cur.soc0 > Energy(battery_size) - MulEff(cur.pv - cur.s_load)
    /\ cur.s_pv = cur.s_load /\ cur.s_batt = 0 /\ soc = cur.soc0

\* C22: at a timestep whose hour is in GRID_AVAILABLE_HOURS the battery
\* discharges only if SOC - shortfall/0.9 is strictly above 20 % of capacity,
\* so that the SOC after the discharge is above 20 % of capacity.
C22_ReserveKeptWhenGridAvailable ==
    (t > 0 /\ ~GridUnavailable /\ cur.s_batt > 0) =>
        /\ cur.soc0 - DivEff(Shortfall) > Frac20(battery_size)
        /\ soc > Frac20(battery_size)

\* C22 witness: calculate_setpoints_priority discharged the battery in a
\* grid-available hour and SOC stayed above 20 %.
C22_Witness ==
    /\ t > 0 /\ fn = "priority" /\ ~GridUnavailable
    /\ cur.s_batt > 0 /\ cur.s_batt = Shortfall
    /\ soc = cur.soc0 - DivEff(cur.s_batt) /\ soc > Frac20(battery_size)

\* C23: at a grid-unavailable timestep with shortfall g > 0 where the 20 %
\* test fails: if SOC >= g/0.9 the battery supplies g and diesel is 0;
\* otherwise diesel = min(750, max(250, g)) and, when diesel > g, the battery
\* set-point is g - diesel.
C23_BelowReserveBatteryThenDiesel ==
    (/\ t > 0 /\ GridUnavailable /\ Shortfall > 0
     /\ ~(cur.soc0 > Frac20(battery_size) + DivEff(Shortfall))) =>
        IF cur.soc0 >= DivEff(Shortfall)
        THEN cur.s_batt = Shortfall /\ cur.s_diesel = 0
        ELSE /\ cur.s_diesel = min(750, max(250, Shortfall))
             /\ cur.s_diesel > Shortfall => cur.s_batt = Shortfall - cur.s_diesel

\* C23 witness: shortfall 100 in an hour without grid, SOC below 100/0.9:
\* diesel ran at its minimum 250 and 150 went into the battery.
C23_Witness ==
    /\ t > 0 /\ fn = "constraint" /\ GridUnavailable
    /\ Shortfall = 100 /\ cur.soc0 < DivEff(100)
    /\ cur.s_diesel = 250 /\ cur.s_batt = -150

\* C27: the final clamp of SOC to [0, capacity] alters SOC only where diesel
\* output above the shortfall charges the battery; where a PV surplus charges
\* it and where it discharges, the SOC before the clamp lies within
\* [0, capacity] and SOC changes by exactly charge*0.9 or discharge/0.9.
C27_ClampOnlyOnDieselExcess ==
    t > 0 =>
        /\ soc # cur.soc_raw => cur.s_diesel > Shortfall /\ cur.s_diesel > 0
        /\ (cur.pv > cur.s_load /\ cur.s_batt < 0) =>
              /\ 0 <= cur.soc_raw /\ cur.soc_raw <= Energy(battery_size)
              /\ soc = cur.soc0 + MulEff(-cur.s_batt)
        /\ cur.s_batt > 0 =>
              /\ 0 <= cur.soc_raw /\ cur.soc_raw <= Energy(battery_size)
              /\ soc = cur.soc0 - DivEff(cur.s_batt)

\* C27 witness: diesel at its minimum charged a small battery beyond its
\* capacity and the clamp cut SOC back to the capacity.
C27_Witness ==
    /\ t > 0 /\ cur.s_diesel > Shortfall /\ cur.s_batt < 0
    /\ cur.soc_raw > Energy(battery_size) /\ soc # cur.soc_raw
    /\ soc = Energy(battery_size) /\ battery_size = 100

\* C28: battery discharge is all-or-nothing and excludes diesel: a positive
\* battery set-point equals the entire shortfall and comes with diesel 0, and
\* with diesel > 0 the battery set-point is <= 0, even if SOC is positive.
C28_DischargeAllOrNothing ==
    t > 0 =>
        /\ cur.s_batt > 0 => cur.s_batt = Shortfall /\ cur.s_diesel = 0
        /\ cur.s_diesel > 0 => cur.s_batt <= 0

\* C28 witness: with SOC positive, a shortfall of 800 was left to the diesel
\* generator at 750 and the battery did not take the rest.
C28_Witness ==
    /\ t > 0 /\ cur.soc0 > 0 /\ Shortfall = 800
    /\ cur.s_diesel = 750 /\ cur.s_batt = 0 /\ soc = cur.soc0

\* C29: at a timestep with PV < load, the hour in GRID_AVAILABLE_HOURS and
\* SOC <= 0.2*capacity + shortfall/0.9, SOC is unchanged, battery and diesel
\* set-points are 0 and the grid covers the whole shortfall; a timestep with
\* PV equal to the load leaves SOC unchanged with battery and diesel at 0.
C29_GridCoversShortfall ==
    t > 0 =>
        /\ (/\ cur.pv < cur.s_load /\ ~GridUnavailable
            /\ cur.soc0 <= Frac20(battery_size) + DivEff(Shortfall)) =>
              /\ soc = cur.soc0 /\ cur.s_batt = 0 /\ cur.s_diesel = 0
              /\ cur.s_load - Supplied = Shortfall
        /\ cur.pv = cur.s_load =>
              soc = cur.soc0 /\ cur.s_batt = 0 /\ cur.s_diesel = 0

\* C29 witness: calculate_setpoints_priority left a shortfall to the grid in
\* a grid-available hour, the battery being too low for the 20 % test.
C29_Witness ==
    /\ t > 0 /\ fn = "priority" /\ ~GridUnavailable
    /\ Shortfall > 0 /\ cur.soc0 > 0
    /\ cur.soc0 <= Frac20(battery_size) + DivEff(Shortfall)
    /\ cur.s_batt = 0 /\ cur.s_diesel = 0 /\ soc = cur.soc0
    /\ cur.s_load - Supplied = Shortfall

RECURSIVE FuelOfSteps(_, _)
\* sum over the first k recorded timesteps of
\* calculate_diesel_fuel_usage(s_diesel) [1/375 l]
FuelOfSteps(steps, k) ==
    IF k = 0 THEN 0
    ELSE FuelOfSteps(steps, k - 1)
         + calculate_diesel_fuel_usage(2 * steps[k].cur.s_diesel)

\* C24: within constraint, fuel_usage starts at 0, never decreases from one
\* timestep to the next, changes only in timesteps where s_diesel > 0, and
\* after every timestep, the last one included, equals the sum over the
\* timesteps made of calculate_diesel_fuel_usage(s_diesel[t]).
C24_FuelIsRunningSum ==
    /\ (fn = "constraint" /\ t = 0) => fuel_usage = 0
    /\ (fn = "constraint" /\ t > 0) =>
          fuel_usage = FuelOfSteps(trace[RunConfig].steps, t)
    /\ \A c \in RunConfigs : c[1] = "constraint" =>
          \A k \in 1 .. Len(trace[c].steps) :
              LET now    == trace[c].steps[k].fuel_usage
                  before == IF k = 1 THEN 0 ELSE trace[c].steps[k - 1].fuel_usage
              IN  /\ now >= before
                  /\ now # before => trace[c].steps[k].cur.s_diesel > 0
                  /\ now = FuelOfSteps(trace[c].steps, k)

\* C24 witness: constraint((2, 100)) returned after two hours on diesel at
\* 750 kVA: 2 * 202 l.
C24_Witness ==
    /\ fn = "constraint" /\ pc = "done" /\ battery_size = 100 /\ t >= 2
    /\ trace[RunConfig].steps[1].cur.s_diesel = 750
    /\ trace[RunConfig].steps[1].fuel_usage = 202 * 375
    /\ trace[RunConfig].steps[2].cur.s_diesel = 750
    /\ trace[RunConfig].steps[2].fuel_usage = 404 * 375
    /\ fuel_usage >= 404 * 375

\* signed square of the value of magnitude sqrt(p^2 + q^2) with the sign of p
SignedApparentSquare(p, q) ==
    IF p < 0 THEN -(p * p + q * q) ELSE p * p + q * q

\* C25 (as claimed): calc_s returns for every (p, q) a value of magnitude
\* sqrt(p^2 + q^2) with the sign of the active power p, and its Series and
\* DataFrame forms return for each element what the scalar form returns for
\* that (p, q), also where p and q have opposite signs.
C25_CalcSSignedMagnitude ==
    pure.fn = "calc_s" =>
        \A k \in 1 .. Len(pure.ret) :
            /\ pure.ret[k] = SignedApparentSquare(pure.p[k], pure.q[k])
            /\ pure.ret[k] = calc_s_scalar(pure.p[k], pure.q[k])

\* the same where p and q do not have opposite signs and p # 0: there the
\* forms agree
C25_CalcSSameSigns ==
    pure.fn = "calc_s" =>
        \A k \in 1 .. Len(pure.ret) :
            (pure.p[k] * pure.q[k] >= 0 /\ pure.p[k] # 0) =>
                pure.ret[k] = SignedApparentSquare(pure.p[k], pure.q[k])

\* C26: for loads with positive active power, calculate_soc on the battery
\* (p, q) set-points of a run of calculate_setpoints_priority, with the same
\* capacity, initial SOC and efficiency, returns at every timestep the _soc
\* the dispatch loop had after that timestep, as a percentage of the capacity
\* and hence within [0, 100].
C26_ReplayedSocIsDispatchSoc ==
    pure.fn = "calculate_soc" =>
        /\ Len(pure.ret) = Len(trace[PriorityRun].steps)
        /\ (\A k \in 1 .. Len(pure.ret) :
                trace[PriorityRun].steps[k].cur.load_p > 0)
           => \A k \in 1 .. Len(pure.ret) :
                /\ pure.ret[k].den = Energy(BATT_NOM_ENERGY)
                /\ pure.ret[k].num = 100 * trace[PriorityRun].steps[k].soc
                /\ 0 <= pure.ret[k].num
                /\ pure.ret[k].num <= 100 * pure.ret[k].den

\* a replayed run in which the battery was discharged at one timestep and
\* charged from the PV surplus at another
C26_Witness ==
    /\ pure.fn = "calculate_soc"
    /\ \A k \in 1 .. Len(pure.ret) :
          trace[PriorityRun].steps[k].cur.load_p > 0
    /\ \E j \in 1 .. Len(pure.ret), k \in 1 .. Len(pure.ret) :
          /\ pure.p[j] > 0 /\ pure.p[k] < 0
          /\ pure.ret[j].num < pure.ret[k].num
          /\ pure.ret[k].num = 100 * trace[PriorityRun].steps[k].soc

=============================================================================
